---------------------------- MODULE Spec2Model ----------------------------
(***************************************************************************)
(* Model of ResourceManagerService                                         *)
(* (services/mediaresourcemanager/ResourceManagerService.cpp).             *)
(*                                                                         *)
(* mMap is a KeyedVector<int, ResourceInfos>: a vector of (key, value)     *)
(* pairs kept sorted by key, so an index loop over it visits the pids in   *)
(* ascending order.  It is modelled as a sequence of records               *)
(* [key, value] sorted by key; a ResourceInfos is the sequence of the      *)
(* ResourceInfo records of one pid, in registration order.                 *)
(***************************************************************************)
EXTENDS Integers, Sequences, FiniteSets

\* ------------------------------------------------------------- bounds
\* most resources registered at any one time, over the whole registry
MaxHeld == 2
\* most resources in one reclaimResource request
MaxReq == 2
\* most policies in one config call
MaxPolicies == 2

Pids == {1, 2, 3}
ClientIds == {1, 2}
Handles == {"h1", "h2"}
Threads == {"t1", "t2"}
Priorities == {10, 20}

\* ---------------------------------------------------------- constants
kResourceSecureCodec == "secure-codec"
kResourceNonSecureCodec == "non-secure-codec"
kResourceGraphicMemory == "graphic-memory"
kPolicySupportsMultipleSecureCodecs == "supports-multiple-secure-codecs"
kPolicySupportsSecureWithNonSecureCodec == "supports-secure-with-non-secure-codec"
kPolicyUnknown == "unknown-policy"

ResourceTypes == {kResourceSecureCodec, kResourceNonSecureCodec, kResourceGraphicMemory}
PolicyTypes == {kPolicySupportsMultipleSecureCodecs,
                kPolicySupportsSecureWithNonSecureCodec, kPolicyUnknown}

\* getPriority failed for the pid
NoPrio == 0
\* the lock is free
NoThread == "none"
\* a null sp<IResourceManagerClient>
NullClient == "null"

MediaResource(type, value) == [mType |-> type, mValue |-> value]

SeqsUpTo(S, n) == UNION {[1..k -> S] : k \in 0..n}

VARIABLES
    mMap,                               \* the registry
    mSupportsMultipleSecureCodecs,      \* policy flag
    mSupportsSecureWithNonSecureCodec,  \* policy flag
    mLock,                              \* the thread holding mLock, or NoThread
    prio,                               \* what ProcessInfo::getPriority answers now
    pc,                                 \* where each thread is in reclaimResource
    callingPid,                         \* reclaimResource's argument, per thread
    request,                            \* reclaimResource's resources (their types)
    clients,                            \* reclaimResource's local victim vector
    called,                             \* the callbacks invoked so far, with results
    ret,                                \* reclaimResource's return value
    lastCall                            \* history: the last registry call, the
                                        \* registry before it, and the add it undoes

vars == <<mMap, mSupportsMultipleSecureCodecs, mSupportsSecureWithNonSecureCodec,
          mLock, prio, pc, callingPid, request, clients, called, ret,
         lastCall>>

\* ------------------------------------------------- KeyedVector helpers
Keys(map) == {map[i].key : i \in 1..Len(map)}

\* index of pid in the map, 0 when absent (the code's negative index)
indexOfKey(map, pid) ==
    IF pid \in Keys(map) THEN CHOOSE i \in 1..Len(map) : map[i].key = pid ELSE 0

\* KeyedVector::add on an absent key: inserted at its place in key order
KeyedVectorAdd(map, pid, infos) ==
    LET below == Cardinality({i \in 1..Len(map) : map[i].key < pid})
    IN  SubSeq(map, 1, below) \o <<[key |-> pid, value |-> infos]>>
            \o SubSeq(map, below + 1, Len(map))

\* Vector::removeAt
RemoveAt(s, j) == SubSeq(s, 1, j - 1) \o SubSeq(s, j + 1, Len(s))

\* ------------------------------------------------------ static helpers
RECURSIVE hasResourceTypeFrom(_, _, _)
hasResourceTypeFrom(type, resources, i) ==
    IF i > Len(resources) THEN FALSE
    ELSE IF resources[i].mType = type THEN TRUE
    ELSE hasResourceTypeFrom(type, resources, i + 1)

hasResourceType(type, resources) == hasResourceTypeFrom(type, resources, 1)

RECURSIVE hasResourceTypeInfosFrom(_, _, _)
hasResourceTypeInfosFrom(type, infos, i) ==
    IF i > Len(infos) THEN FALSE
    ELSE IF hasResourceType(type, infos[i].resources) THEN TRUE
    ELSE hasResourceTypeInfosFrom(type, infos, i + 1)

hasResourceTypeInfos(type, infos) == hasResourceTypeInfosFrom(type, infos, 1)

\* the map with an entry for pid ensured
getResourceInfosForEdit(pid, map) ==
    IF indexOfKey(map, pid) = 0 THEN KeyedVectorAdd(map, pid, <<>>) ELSE map

\* index of the first record of clientId in infos, 0 when absent
RECURSIVE findClientFrom(_, _, _)
findClientFrom(clientId, infos, i) ==
    IF i > Len(infos) THEN 0
    ELSE IF infos[i].clientId = clientId THEN i
    ELSE findClientFrom(clientId, infos, i + 1)

\* infos with a record for clientId ensured (a new one takes the handle)
getResourceInfoForEdit(clientId, client, infos) ==
    IF findClientFrom(clientId, infos, 1) # 0 THEN infos
    ELSE Append(infos, [clientId |-> clientId, client |-> client, resources |-> <<>>])

\* ------------------------------------------------------------ registry
addResource(map, pid, clientId, client, resources) ==
    LET m1 == getResourceInfosForEdit(pid, map)
        i == indexOfKey(m1, pid)
        infos == getResourceInfoForEdit(clientId, client, m1[i].value)
        j == findClientFrom(clientId, infos, 1)
        info == [infos[j] EXCEPT !.resources = @ \o resources]
    IN  [m1 EXCEPT ![i].value = [infos EXCEPT ![j] = info]]

\* the inner loop of removeResource over one entry: every record of clientId
\* is removed
RECURSIVE removeFromInfos(_, _, _)
removeFromInfos(infos, clientId, j) ==
    IF j > Len(infos) THEN infos
    ELSE IF infos[j].clientId = clientId
         THEN removeFromInfos(RemoveAt(infos, j), clientId, j)
         ELSE removeFromInfos(infos, clientId, j + 1)

\* the outer loop: it stops after the first entry that held the client
RECURSIVE removeResourceFrom(_, _, _)
removeResourceFrom(map, clientId, i) ==
    IF i > Len(map) THEN map
    ELSE LET infos == removeFromInfos(map[i].value, clientId, 1)
             found == Len(infos) # Len(map[i].value)
         IN  IF found THEN [map EXCEPT ![i].value = infos]
             ELSE removeResourceFrom(map, clientId, i + 1)

\* (mutant) an entry left without a record is taken out of the map
RECURSIVE dropEmptyEntries(_)
dropEmptyEntries(map) ==
    IF map = <<>> THEN <<>>
    ELSE IF Head(map).value = <<>> THEN dropEmptyEntries(Tail(map))
    ELSE <<Head(map)>> \o dropEmptyEntries(Tail(map))

removeResourceDroppingEmpty(map, clientId) ==
    dropEmptyEntries(removeResourceFrom(map, clientId, 1))

\* (mutant) the search gives up after the first entry, found or not
removeResourceFirstEntryOnly(map, clientId) ==
    IF map = <<>> THEN map
    ELSE [map EXCEPT ![1].value = removeFromInfos(map[1].value, clientId, 1)]

removeResource(map, clientId) == removeResourceFrom(map, clientId, 1)

\* ------------------------------------------------------ process info
\* ProcessInfoInterface::getPriority: ok is its return value
getPriority(pid) == [ok |-> prio[pid] # NoPrio, priority |-> prio[pid]]

\* (mutant) the caller's priority is compared without checking it was read
isCallingPriorityHigherUnchecked(cPid, pid) ==
    IF ~getPriority(pid).ok THEN FALSE
    ELSE getPriority(cPid).priority < getPriority(pid).priority

\* (mutant) an equal priority counts as higher
isCallingPriorityHigherOrEqual(cPid, pid) ==
    IF ~getPriority(cPid).ok THEN FALSE
    ELSE IF ~getPriority(pid).ok THEN FALSE
    ELSE getPriority(cPid).priority <= getPriority(pid).priority

isCallingPriorityHigher_l(cPid, pid) ==
    IF ~getPriority(cPid).ok THEN FALSE
    ELSE IF ~getPriority(pid).ok THEN FALSE
    ELSE getPriority(cPid).priority < getPriority(pid).priority

\* ---------------------------------------------------- victim selection
\* An element of a victim vector is the client handle; the other fields
\* record which record it was taken from, in which pass, and the priorities
\* getPriority gave when it was taken.
Victim(map, i, j, cPid, pass) ==
    [client |-> map[i].value[j].client,
     clientId |-> map[i].value[j].clientId,
     pid |-> map[i].key,
     pass |-> pass,
     callerPrio |-> prio[cPid],
     holderPrio |-> prio[map[i].key]]

\* (mutant) the search ends with the first holder it can reclaim from
RECURSIVE getAllClientsFirstOnly(_, _, _, _, _, _)
getAllClientsFirstOnly(map, cPid, type, i, j, temp) ==
    IF i > Len(map) \/ Len(temp) >= 1 THEN [ok |-> TRUE, temp |-> temp]
    ELSE IF j > Len(map[i].value)
         THEN getAllClientsFirstOnly(map, cPid, type, i + 1, 1, temp)
    ELSE IF hasResourceType(type, map[i].value[j].resources)
         THEN IF ~isCallingPriorityHigher_l(cPid, map[i].key)
              THEN [ok |-> FALSE, temp |-> temp]
              ELSE getAllClientsFirstOnly(map, cPid, type, i, j + 1,
                                          Append(temp, Victim(map, i, j, cPid, 1)))
    ELSE getAllClientsFirstOnly(map, cPid, type, i, j + 1, temp)

\* the two nested loops of getAllClients_l, from entry i, record j, with temp
RECURSIVE getAllClientsFrom(_, _, _, _, _, _)
getAllClientsFrom(map, cPid, type, i, j, temp) ==
    IF i > Len(map) THEN [ok |-> TRUE, temp |-> temp]
    ELSE IF j > Len(map[i].value)
         THEN getAllClientsFrom(map, cPid, type, i + 1, 1, temp)
    ELSE IF hasResourceType(type, map[i].value[j].resources)
         THEN IF ~isCallingPriorityHigher_l(cPid, map[i].key)
              THEN [ok |-> FALSE, temp |-> temp]
              ELSE getAllClientsFrom(map, cPid, type, i, j + 1,
                                     Append(temp, Victim(map, i, j, cPid, 1)))
    ELSE getAllClientsFrom(map, cPid, type, i, j + 1, temp)

\* (mutant) a holder that cannot be reclaimed from is passed over
getAllClientsPartial(map, cPid, type, cl) ==
    LET r == getAllClientsFrom(map, cPid, type, 1, 1, <<>>)
    IN  [ok |-> TRUE, clients |-> cl \o r.temp]

getAllClients_l(map, cPid, type, cl) ==
    LET r == getAllClientsFrom(map, cPid, type, 1, 1, <<>>)
    IN  IF ~r.ok THEN [ok |-> FALSE, clients |-> cl]
        ELSE [ok |-> TRUE, clients |-> cl \o r.temp]

\* the loop of getLowestPriorityPid_l from entry i; pid = -1: none yet
RECURSIVE getLowestPriorityPidFrom(_, _, _, _, _)
getLowestPriorityPidFrom(map, type, i, pid, priority) ==
    IF i > Len(map) THEN [ok |-> pid # -1, pid |-> pid, priority |-> priority]
    ELSE IF Len(map[i].value) = 0
         THEN getLowestPriorityPidFrom(map, type, i + 1, pid, priority)
    ELSE IF ~hasResourceTypeInfos(type, map[i].value)
         THEN getLowestPriorityPidFrom(map, type, i + 1, pid, priority)
    ELSE IF ~getPriority(map[i].key).ok
         THEN getLowestPriorityPidFrom(map, type, i + 1, pid, priority)
    ELSE IF pid = -1 \/ getPriority(map[i].key).priority > priority
         THEN getLowestPriorityPidFrom(map, type, i + 1, map[i].key,
                                       getPriority(map[i].key).priority)
    ELSE getLowestPriorityPidFrom(map, type, i + 1, pid, priority)

getLowestPriorityPid_l(map, type) == getLowestPriorityPidFrom(map, type, 1, -1, -1)

\* (mutant) a later resource of equal value replaces the one found
RECURSIVE getBiggestClientLatest(_, _, _, _, _, _)
getBiggestClientLatest(infos, type, i, j, best, largestValue) ==
    IF i > Len(infos) THEN best
    ELSE IF j > Len(infos[i].resources)
         THEN getBiggestClientLatest(infos, type, i + 1, 1, best, largestValue)
    ELSE IF infos[i].resources[j].mType = type
              /\ infos[i].resources[j].mValue >= largestValue
              /\ infos[i].resources[j].mValue > 0
         THEN getBiggestClientLatest(infos, type, i, j + 1, i,
                                     infos[i].resources[j].mValue)
    ELSE getBiggestClientLatest(infos, type, i, j + 1, best, largestValue)

\* the loops of getBiggestClient_l over the records and resources of one pid;
\* best is the index of the record clientTemp was taken from (0: still NULL)
RECURSIVE getBiggestClientFrom(_, _, _, _, _, _)
getBiggestClientFrom(infos, type, i, j, best, largestValue) ==
    IF i > Len(infos) THEN best
    ELSE IF j > Len(infos[i].resources)
         THEN getBiggestClientFrom(infos, type, i + 1, 1, best, largestValue)
    ELSE IF infos[i].resources[j].mType = type
              /\ infos[i].resources[j].mValue > largestValue
         THEN getBiggestClientFrom(infos, type, i, j + 1, i,
                                   infos[i].resources[j].mValue)
    ELSE getBiggestClientFrom(infos, type, i, j + 1, best, largestValue)

getBiggestClient_l(map, pid, type, cPid) ==
    LET index == indexOfKey(map, pid)
    IN  IF index = 0 THEN [ok |-> FALSE, index |-> 0]
        ELSE LET best == getBiggestClientFrom(map[index].value, type, 1, 1, 0, 0)
             IN  IF best = 0 \/ map[index].value[best].client = NullClient
                 THEN [ok |-> FALSE, index |-> 0]
                 ELSE [ok |-> TRUE, victim |-> Victim(map, index, best, cPid, 2)]

getLowestPriorityBiggestClient_l(map, cPid, type) ==
    IF ~getPriority(cPid).ok THEN [ok |-> FALSE]
    ELSE LET low == getLowestPriorityPid_l(map, type)
         IN  IF ~low.ok THEN [ok |-> FALSE]
             ELSE IF low.priority <= getPriority(cPid).priority THEN [ok |-> FALSE]
             ELSE getBiggestClient_l(map, low.pid, type, cPid)

\* what rule of the first pass applies to a requested type: the types whose
\* holders are collected, in the order of the calls
ConflictTypes(type) ==
    IF type = kResourceSecureCodec
    THEN (IF ~mSupportsMultipleSecureCodecs THEN <<kResourceSecureCodec>> ELSE <<>>)
         \o (IF ~mSupportsSecureWithNonSecureCodec
             THEN <<kResourceNonSecureCodec>> ELSE <<>>)
    ELSE IF type = kResourceNonSecureCodec
    THEN (IF ~mSupportsSecureWithNonSecureCodec THEN <<kResourceSecureCodec>> ELSE <<>>)
    ELSE <<>>

\* the getAllClients_l calls made for one requested resource
RECURSIVE collectAll(_, _, _, _, _)
collectAll(map, cPid, types, k, cl) ==
    IF k > Len(types) THEN [ok |-> TRUE, clients |-> cl]
    ELSE LET r == getAllClients_l(map, cPid, types[k], cl)
         IN  IF ~r.ok THEN r ELSE collectAll(map, cPid, types, k + 1, r.clients)

\* first pass of reclaimResource, from requested resource i
RECURSIVE firstPass(_, _, _, _, _)
firstPass(map, cPid, resources, i, cl) ==
    IF i > Len(resources) THEN [ok |-> TRUE, clients |-> cl]
    ELSE LET r == collectAll(map, cPid, ConflictTypes(resources[i]), 1, cl)
         IN  IF ~r.ok THEN r ELSE firstPass(map, cPid, resources, i + 1, r.clients)

\* second pass of reclaimResource, from requested resource i
RECURSIVE secondPass(_, _, _, _, _)
secondPass(map, cPid, resources, i, cl) ==
    IF i > Len(resources) THEN [ok |-> TRUE, clients |-> cl]
    ELSE IF resources[i] = kResourceGraphicMemory
         THEN LET r == getLowestPriorityBiggestClient_l(map, cPid, resources[i])
              IN  IF ~r.ok THEN [ok |-> FALSE, clients |-> cl]
                  ELSE secondPass(map, cPid, resources, i + 1, Append(cl, r.victim))
    ELSE secondPass(map, cPid, resources, i + 1, cl)

\* -------------------------------------------------------------- config
RECURSIVE configFrom(_, _, _)
configFrom(policies, i, flags) ==
    IF i > Len(policies) THEN flags
    ELSE IF policies[i].mType = kPolicySupportsMultipleSecureCodecs
         THEN configFrom(policies, i + 1,
                         [flags EXCEPT !.multipleSecure = (policies[i].mValue # 0)])
    ELSE IF policies[i].mType = kPolicySupportsSecureWithNonSecureCodec
         THEN configFrom(policies, i + 1,
                         [flags EXCEPT !.secureWithNonSecure = (policies[i].mValue # 0)])
    ELSE configFrom(policies, i + 1, flags)

\* the policies from the last to the first
RECURSIVE ReversePolicies(_)
ReversePolicies(policies) ==
    IF policies = <<>> THEN <<>>
    ELSE Append(ReversePolicies(Tail(policies)), Head(policies))

\* (mutant) of the pairs of one call the first for a key counts, not the last
configFirstWins(policies) ==
    configFrom(ReversePolicies(policies), 1,
               [multipleSecure |-> mSupportsMultipleSecureCodecs,
                secureWithNonSecure |-> mSupportsSecureWithNonSecureCodec])

config(policies) ==
    configFrom(policies, 1, [multipleSecure |-> mSupportsMultipleSecureCodecs,
                             secureWithNonSecure |-> mSupportsSecureWithNonSecureCodec])

\* ---------------------------------------------------------------- state
\* no addResource or removeResource call is on record
NoCall ==
    [op |-> "none", pid |-> 0, clientId |-> 0, before |-> <<>>,
     undoes |-> FALSE, addPid |-> 0, addBefore |-> <<>>]

Init ==
    /\ mMap = <<>>
    /\ mSupportsMultipleSecureCodecs = TRUE
    /\ mSupportsSecureWithNonSecureCodec = TRUE
    /\ mLock = NoThread
    /\ prio \in [Pids -> Priorities \cup {NoPrio}]
    /\ pc = [t \in Threads |-> "idle"]
    /\ callingPid = [t \in Threads |-> 0]
    /\ request = [t \in Threads |-> <<>>]
    /\ clients = [t \in Threads |-> <<>>]
    /\ called = [t \in Threads |-> <<>>]
    /\ ret = [t \in Threads |-> FALSE]
    /\ lastCall = NoCall

\* (mutant) the lock is still held when the locked block has been left
AutolockKept(t) == t

\* (mutant) a return from inside the locked block leaves the lock taken
AutolockLeakedOnReturn(t) == IF pc[t] = "idle" THEN t ELSE NoThread

\* the value of mLock once a Mutex::Autolock of thread t goes out of scope
AutolockRelease(t) == NoThread

local == <<pc, callingPid, request, clients, called, ret>>
registry == <<mMap, mSupportsMultipleSecureCodecs, mSupportsSecureWithNonSecureCodec>>

\* ------------------------------------------------- the locked operations
\* config, addResource and removeResource run wholly under mLock: a call
\* takes the lock when it is free and has released it when it returns.
ConfigCall(policies) ==
    /\ mLock = NoThread
    /\ mSupportsMultipleSecureCodecs' = config(policies).multipleSecure
    /\ mSupportsSecureWithNonSecureCodec' = config(policies).secureWithNonSecure
    /\ UNCHANGED <<mMap, mLock, prio, local>>

Config(policies) == ConfigCall(policies) /\ UNCHANGED lastCall

\* the number of resources in the registry
RECURSIVE HeldInfos(_)
HeldInfos(infos) ==
    IF infos = <<>> THEN 0 ELSE Len(Head(infos).resources) + HeldInfos(Tail(infos))
RECURSIVE Held(_)
Held(map) == IF map = <<>> THEN 0 ELSE HeldInfos(Head(map).value) + Held(Tail(map))

\* addResource and removeResource leave lastCall to the specification: one
\* that follows the registry calls records them, the others keep it as it is.
AddResource(pid, clientId, client, resources) ==
    /\ mLock = NoThread
    /\ Held(mMap) + Len(resources) <= MaxHeld
    /\ mMap' = addResource(mMap, pid, clientId, client, resources)
    /\ UNCHANGED <<mSupportsMultipleSecureCodecs, mSupportsSecureWithNonSecureCodec,
                   mLock, prio, local>>

RemoveResource(clientId) ==
    /\ mLock = NoThread
    /\ mMap' = removeResource(mMap, clientId)
    /\ UNCHANGED <<mSupportsMultipleSecureCodecs, mSupportsSecureWithNonSecureCodec,
                   mLock, prio, local>>

\* ------------------------------------------------------ reclaimResource
\* reclaimResource returns r on thread t
ReturnWith(t, r) ==
    /\ pc' = [pc EXCEPT ![t] = "done"]
    /\ ret' = [ret EXCEPT ![t] = r]

\* thread t takes the lock and runs the first pass
ReclaimBegin(t, cPid, resources) ==
    /\ pc[t] = "idle"
    /\ mLock = NoThread
    /\ callingPid' = [callingPid EXCEPT ![t] = cPid]
    /\ request' = [request EXCEPT ![t] = resources]
    /\ LET r == firstPass(mMap, cPid, resources, 1, <<>>)
       IN  IF ~r.ok
           THEN /\ ReturnWith(t, FALSE)
                /\ mLock' = AutolockRelease(t)
                /\ UNCHANGED clients
           ELSE /\ pc' = [pc EXCEPT ![t] = "locked"]
                /\ mLock' = t
                /\ clients' = [clients EXCEPT ![t] = r.clients]
                /\ UNCHANGED ret
    /\ UNCHANGED <<registry, prio, called, lastCall>>

\* (mutant) the second pass runs whatever the first pass collected
SecondPassAlways(t) ==
    /\ pc[t] = "locked"
    /\ LET r == secondPass(mMap, callingPid[t], request[t], 1, clients[t])
       IN  /\ mLock' = AutolockRelease(t)
           /\ IF ~r.ok \/ Len(r.clients) = 0
              THEN /\ ReturnWith(t, FALSE)
                   /\ UNCHANGED clients
              ELSE /\ pc' = [pc EXCEPT ![t] = "callbacks"]
                   /\ clients' = [clients EXCEPT ![t] = r.clients]
                   /\ UNCHANGED ret
    /\ UNCHANGED <<registry, prio, callingPid, request, called, lastCall>>

\* thread t, still holding the lock, runs the second pass and leaves the
\* locked block
SecondPass(t) ==
    /\ pc[t] = "locked"
    /\ LET r == IF Len(clients[t]) = 0
                THEN secondPass(mMap, callingPid[t], request[t], 1, clients[t])
                ELSE [ok |-> TRUE, clients |-> clients[t]]
       IN  /\ mLock' = AutolockRelease(t)
           /\ IF ~r.ok \/ Len(r.clients) = 0
              THEN /\ ReturnWith(t, FALSE)
                   /\ UNCHANGED clients
              ELSE /\ pc' = [pc EXCEPT ![t] = "callbacks"]
                   /\ clients' = [clients EXCEPT ![t] = r.clients]
                   /\ UNCHANGED ret
    /\ UNCHANGED <<registry, prio, callingPid, request, called, lastCall>>

\* (mutant) the victims are called from the last to the first
AfterCallbackReversed(t, ok) ==
    LET i == Len(called[t]) + 1
        v == clients[t][Len(clients[t]) + 1 - i]
    IN  /\ called' = [called EXCEPT ![t] = Append(@, [victim |-> v, ok |-> ok])]
        /\ IF ~ok THEN ReturnWith(t, FALSE)
           ELSE IF i = Len(clients[t]) THEN ReturnWith(t, TRUE)
           ELSE pc' = [pc EXCEPT ![t] = "callbacks"] /\ UNCHANGED ret

\* (mutant) a failed callback does not end the call
AfterCallbackIgnoringFailure(t, ok) ==
    LET i == Len(called[t]) + 1
    IN  /\ called' = [called EXCEPT ![t] = Append(@, [victim |-> clients[t][i], ok |-> ok])]
        /\ IF i = Len(clients[t]) THEN ReturnWith(t, TRUE)
           ELSE pc' = [pc EXCEPT ![t] = "callbacks"] /\ UNCHANGED ret

\* the callback of victim i of thread t has returned ok
AfterCallback(t, ok) ==
    LET i == Len(called[t]) + 1
    IN  /\ called' = [called EXCEPT ![t] = Append(@, [victim |-> clients[t][i], ok |-> ok])]
        /\ IF ~ok THEN ReturnWith(t, FALSE)
           ELSE IF i = Len(clients[t]) THEN ReturnWith(t, TRUE)
           ELSE pc' = [pc EXCEPT ![t] = "callbacks"] /\ UNCHANGED ret

\* (mutant) the service itself drops the record of a victim whose callback
\* has succeeded
CallbackReturnsDropping(t, ok) ==
    /\ pc[t] = "callbacks"
    /\ AfterCallback(t, ok)
    /\ mMap' = IF ok THEN removeResource(mMap, clients[t][Len(called[t]) + 1].clientId)
               ELSE mMap
    /\ UNCHANGED <<mSupportsMultipleSecureCodecs, mSupportsSecureWithNonSecureCodec,
                   mLock, prio, callingPid, request, clients, lastCall>>

\* clients[i]->reclaimResource() is called and returns ok without re-entering
CallbackReturns(t, ok) ==
    /\ pc[t] = "callbacks"
    /\ AfterCallback(t, ok)
    /\ UNCHANGED <<registry, mLock, prio, callingPid, request, clients, lastCall>>

\* clients[i]->reclaimResource() is called and the victim calls
\* removeResource on this thread: it waits for the lock
CallbackCallsRemove(t) ==
    /\ pc[t] = "callbacks"
    /\ pc' = [pc EXCEPT ![t] = "cbwait"]
    /\ UNCHANGED <<registry, mLock, prio, callingPid, request, clients, called, ret,
                   lastCall>>

\* the victim's removeResource gets the lock, runs, and the callback returns ok
CallbackRemoves(t, ok) ==
    /\ pc[t] = "cbwait"
    /\ mLock = NoThread
    /\ mMap' = removeResource(mMap, clients[t][Len(called[t]) + 1].clientId)
    /\ AfterCallback(t, ok)
    /\ UNCHANGED <<mSupportsMultipleSecureCodecs, mSupportsSecureWithNonSecureCodec,
                   mLock, prio, callingPid, request, clients, lastCall>>

\* the call the victim makes from its callback is addResource, for itself
CallbackAdds(t, resources, ok) ==
    /\ pc[t] = "cbwait"
    /\ mLock = NoThread
    /\ LET v == clients[t][Len(called[t]) + 1]
       IN  /\ Held(mMap) + Len(resources) <= MaxHeld
           /\ mMap' = addResource(mMap, v.pid, v.clientId, v.client, resources)
    /\ AfterCallback(t, ok)
    /\ UNCHANGED <<mSupportsMultipleSecureCodecs, mSupportsSecureWithNonSecureCodec,
                   mLock, prio, callingPid, request, clients, lastCall>>

\* the call the victim makes from its callback is config
CallbackConfigs(t, policies, ok) ==
    /\ pc[t] = "cbwait"
    /\ mLock = NoThread
    /\ mSupportsMultipleSecureCodecs' = config(policies).multipleSecure
    /\ mSupportsSecureWithNonSecureCodec' = config(policies).secureWithNonSecure
    /\ AfterCallback(t, ok)
    /\ UNCHANGED <<mMap, mLock, prio, callingPid, request, clients, lastCall>>

\* the caller has its answer; the thread is free for the next call
ReclaimEnd(t) ==
    /\ pc[t] = "done"
    /\ pc' = [pc EXCEPT ![t] = "idle"]
    /\ callingPid' = [callingPid EXCEPT ![t] = 0]
    /\ request' = [request EXCEPT ![t] = <<>>]
    /\ clients' = [clients EXCEPT ![t] = <<>>]
    /\ called' = [called EXCEPT ![t] = <<>>]
    /\ ret' = [ret EXCEPT ![t] = FALSE]
    /\ UNCHANGED <<registry, mLock, prio, lastCall>>

\* --------------------------------------- calls that wait for the lock
\* thread t calls config, addResource or removeResource and waits at the
\* Mutex::Autolock of the call
CallStarts(t) ==
    /\ pc[t] = "idle"
    /\ pc' = [pc EXCEPT ![t] = "opwait"]
    /\ UNCHANGED <<registry, mLock, prio, callingPid, request, clients, called, ret,
                   lastCall>>

\* the waiting call of thread t gets the lock, runs and returns
CallReturns(t) ==
    /\ pc' = [pc EXCEPT ![t] = "idle"]
    /\ UNCHANGED <<mLock, prio, callingPid, request, clients, called, ret, lastCall>>

ConfigRuns(t, policies) ==
    /\ pc[t] = "opwait"
    /\ mLock = NoThread
    /\ mSupportsMultipleSecureCodecs' = config(policies).multipleSecure
    /\ mSupportsSecureWithNonSecureCodec' = config(policies).secureWithNonSecure
    /\ UNCHANGED mMap
    /\ CallReturns(t)

AddResourceRuns(t, pid, clientId, client, resources) ==
    /\ pc[t] = "opwait"
    /\ mLock = NoThread
    /\ Held(mMap) + Len(resources) <= MaxHeld
    /\ mMap' = addResource(mMap, pid, clientId, client, resources)
    /\ UNCHANGED <<mSupportsMultipleSecureCodecs, mSupportsSecureWithNonSecureCodec>>
    /\ CallReturns(t)

RemoveResourceRuns(t, clientId) ==
    /\ pc[t] = "opwait"
    /\ mLock = NoThread
    /\ mMap' = removeResource(mMap, clientId)
    /\ UNCHANGED <<mSupportsMultipleSecureCodecs, mSupportsSecureWithNonSecureCodec>>
    /\ CallReturns(t)

\* ------------------------------------------------------- specifications
Policies == [mType : PolicyTypes, mValue : {0, 1}]
\* the requests: up to MaxReq resources, each type named at most once
Requests ==
    {q \in SeqsUpTo(ResourceTypes, MaxReq) : \A i, j \in 1..Len(q) : q[i] = q[j] => i = j}
AllIdle == \A t \in Threads : pc[t] = "idle"

\* the steps of a reclaimResource call on thread t
Reclaim(t, pids, requests) ==
    \/ \E cPid \in pids, resources \in requests : ReclaimBegin(t, cPid, resources)
    \/ SecondPass(t)
    \/ \E ok \in BOOLEAN : CallbackReturns(t, ok)
    \/ CallbackCallsRemove(t)
    \/ \E ok \in BOOLEAN : CallbackRemoves(t, ok)
    \/ ReclaimEnd(t)

\* SpecSelect: one caller at a time (every call returns before the next is
\* made), clients in pids 1 and 2, reclaimResource called from pid 3, the
\* oracle's answers fixed for the run and every priority readable.
HolderPids == {1, 2}
CallerPids == {3}
SelectResources ==
    {MediaResource(kResourceSecureCodec, 1), MediaResource(kResourceNonSecureCodec, 1),
     MediaResource(kResourceGraphicMemory, 1)}

InitSelect == Init /\ \A p \in Pids : prio[p] # NoPrio

NextSelect ==
    \/ AllIdle /\ \E policy \in Policies : Config(<<policy>>)
    \/ AllIdle /\ \E pid \in HolderPids, clientId \in ClientIds, r \in SelectResources :
                       AddResource(pid, clientId, "h1", <<r>>) /\ UNCHANGED lastCall
    \/ AllIdle /\ \E clientId \in ClientIds :
                       RemoveResource(clientId) /\ UNCHANGED lastCall
    \/ Reclaim("t1", CallerPids, Requests)

SpecSelect == InitSelect /\ [][NextSelect]_vars

\* SpecOracle: as SpecSelect, with an oracle that fails for the caller or for
\* the clients of pid 1.
InitOracle ==
    /\ Init
    /\ prio[1] \in {NoPrio, 20}
    /\ prio[2] \in {10, 20}
    /\ prio[3] \in {NoPrio, 10}

SpecOracle == InitOracle /\ [][NextSelect]_vars

\* SpecEntries: as SpecSelect, with one oracle: the caller outranks the
\* clients of pid 2 and not those of pid 1.
InitEntries == Init /\ prio = <<10, 20, 10>>

SpecEntries == InitEntries /\ [][NextSelect]_vars

\* SpecRegistry: addResource and removeResource calls only, one after the
\* other, with any pid and clientId; lastCall follows them.
RegistryPids == {1, 2}
RegistryResources ==
    {MediaResource(kResourceSecureCodec, 1), MediaResource(kResourceGraphicMemory, 2)}

InitRegistry == Init /\ prio = [p \in Pids |-> 10]

TrackedAdd(pid, clientId, client, resources) ==
    /\ AddResource(pid, clientId, client, resources)
    /\ lastCall' = [op |-> "add", pid |-> pid, clientId |-> clientId, before |-> mMap,
                    undoes |-> FALSE, addPid |-> 0, addBefore |-> <<>>]

TrackedRemove(clientId) ==
    /\ RemoveResource(clientId)
    /\ LET undoes == lastCall.op = "add" /\ lastCall.clientId = clientId
       IN  lastCall' = [op |-> "remove", pid |-> 0, clientId |-> clientId,
                        before |-> mMap, undoes |-> undoes,
                        addPid |-> IF undoes THEN lastCall.pid ELSE 0,
                        addBefore |-> IF undoes THEN lastCall.before ELSE <<>>]

NextRegistry ==
    \/ \E pid \in RegistryPids, clientId \in ClientIds,
          resources \in SeqsUpTo(RegistryResources, 1) :
            TrackedAdd(pid, clientId, "h1", resources)
    \/ \E clientId \in ClientIds : TrackedRemove(clientId)

SpecRegistry == InitRegistry /\ [][NextRegistry]_vars

\* Spec: two threads call reclaimResource from pid 3 while config,
\* addResource and removeResource calls arrive from other threads at any
\* time the lock is free; client 1 lives in pid 1 and client 2 in pid 2.
ConcurrentRequests == {<<kResourceSecureCodec>>}
InitConcurrent == Init /\ prio = <<20, 20, 10>>

Next ==
    \/ \E v \in {0, 1} :
          Config(<<MediaResource(kPolicySupportsMultipleSecureCodecs, v)>>)
    \/ \E pid \in HolderPids :
          /\ AddResource(pid, pid, "h1", <<MediaResource(kResourceSecureCodec, 1)>>)
          /\ UNCHANGED lastCall
    \/ \E clientId \in ClientIds : RemoveResource(clientId) /\ UNCHANGED lastCall
    \/ \E t \in Threads : Reclaim(t, CallerPids, ConcurrentRequests)

Spec == InitConcurrent /\ [][Next]_vars

\* SpecBiggest: one caller at a time, pid 3 at priority 10 asking for graphic
\* memory that clients of pids 1 and 2 hold in sizes 0, 1 and 2; the policy
\* flags stay permissive; lastCall follows the registry calls.
GraphicSizes == {0, 1, 2}
InitBiggest == Init /\ prio[3] = 10

NextBiggest ==
    \/ AllIdle /\ \E pid \in HolderPids, clientId \in ClientIds, v \in GraphicSizes :
          TrackedAdd(pid, clientId, "h1", <<MediaResource(kResourceGraphicMemory, v)>>)
    \/ AllIdle /\ \E clientId \in ClientIds : TrackedRemove(clientId)
    \/ Reclaim("t1", CallerPids, {<<kResourceGraphicMemory>>})

SpecBiggest == InitBiggest /\ [][NextBiggest]_vars

\* SpecConfig: config calls only, one after the other; lastCall keeps the
\* argument of the last call and, for each key, the value of the last pair
\* any call supplied for it (-1: none yet).
PolicyValues == {0, 1, 2}
ConfigPolicies == [mType : PolicyTypes, mValue : PolicyValues]

\* the value of the last pair for key in policies, prev when there is none
LastValue(policies, key, prev) ==
    LET at == {i \in 1..Len(policies) : policies[i].mType = key}
    IN  IF at = {} THEN prev
        ELSE policies[CHOOSE i \in at : \A k \in at : k <= i].mValue

Written(call) ==
    IF call.op = "config" THEN call.written ELSE [key \in PolicyTypes |-> -1]

TrackedConfig(policies) ==
    /\ ConfigCall(policies)
    /\ lastCall' = [op |-> "config", policies |-> policies,
                    written |-> [key \in PolicyTypes |->
                                    LastValue(policies, key, Written(lastCall)[key])]]

InitConfig == Init /\ prio = [p \in Pids |-> 10]

NextConfig ==
    \E policies \in SeqsUpTo(ConfigPolicies, MaxPolicies) : TrackedConfig(policies)

SpecConfig == InitConfig /\ [][NextConfig]_vars

\* SpecAppend: addResource calls only, with any pid, clientId, handle and
\* up to MaxReq resources; lastCall keeps the arguments of the last call.
AddWithArguments(pid, clientId, client, resources) ==
    /\ AddResource(pid, clientId, client, resources)
    /\ lastCall' = [op |-> "add", pid |-> pid, clientId |-> clientId, before |-> mMap,
                    client |-> client, resources |-> resources]

NextAppend ==
    \E pid \in RegistryPids, clientId \in ClientIds, client \in Handles,
       resources \in SeqsUpTo(RegistryResources, MaxReq) :
         AddWithArguments(pid, clientId, client, resources)

SpecAppend == InitRegistry /\ [][NextAppend]_vars

\* SpecLive: two threads, each calling reclaimResource from pid 3 or
\* config, addResource or removeResource, the latter three waiting for the
\* lock as threads; victims may call removeResource, addResource or config
\* from their callbacks; pid 2 has the caller's priority.  A thread that can
\* go on inside the service does so, and one that waits for the lock gets it
\* if the lock is free again and again.
LivePolicies == {<<MediaResource(kPolicySupportsMultipleSecureCodecs, 0)>>,
                 <<MediaResource(kPolicySupportsMultipleSecureCodecs, 1)>>}
LiveResources == <<MediaResource(kResourceSecureCodec, 1)>>

InitLive == Init /\ prio = <<20, 10, 10>>

\* the waiting call of thread t runs
CallRuns(t) ==
    \/ \E policies \in LivePolicies : ConfigRuns(t, policies)
    \/ \E pid \in HolderPids : AddResourceRuns(t, pid, pid, "h1", LiveResources)
    \/ \E clientId \in ClientIds : RemoveResourceRuns(t, clientId)

\* the callback of thread t's next victim goes on without the lock
CallbackGoesOn(t) ==
    \/ \E ok \in BOOLEAN : CallbackReturns(t, ok)
    \/ CallbackCallsRemove(t)

\* the call made from the callback of thread t's next victim runs
CallbackCallRuns(t) ==
    \/ \E ok \in BOOLEAN : CallbackRemoves(t, ok)
    \/ \E ok \in BOOLEAN : CallbackAdds(t, LiveResources, ok)
    \/ \E policies \in LivePolicies, ok \in BOOLEAN : CallbackConfigs(t, policies, ok)

NextLive ==
    \E t \in Threads :
        \/ CallStarts(t)
        \/ CallRuns(t)
        \/ \E resources \in ConcurrentRequests : ReclaimBegin(t, 3, resources)
        \/ SecondPass(t)
        \/ CallbackGoesOn(t)
        \/ CallbackCallRuns(t)
        \/ ReclaimEnd(t)

FairLive ==
    \A t \in Threads :
        /\ WF_vars(SecondPass(t))
        /\ WF_vars(CallbackGoesOn(t))
        /\ SF_vars(CallbackCallRuns(t))
        /\ SF_vars(CallRuns(t))

SpecLive == InitLive /\ [][NextLive]_vars /\ FairLive

\* ----------------------------------------------------------------- claims
\* every callback invoked so far by the call of thread t
Invoked(t) == {called[t][k] : k \in 1..Len(called[t])}

\* C1: reclaimResource invokes a victim callback only for a client whose pid
\* had, when the victim was selected, a priority value strictly greater than
\* the caller's, whether the first or the second pass selected it.
C1_VictimsHaveLowerPriority ==
    \A t \in Threads : \A c \in Invoked(t) :
        /\ c.victim.callerPrio # NoPrio
        /\ c.victim.holderPrio # NoPrio
        /\ c.victim.holderPrio > c.victim.callerPrio

\* C1 witness: a call has invoked the callbacks of two first-pass victims in
\* different pids.
C1_Witness ==
    \E t \in Threads : \E a, b \in Invoked(t) :
        a.victim.pid # b.victim.pid /\ a.victim.pass = 1 /\ b.victim.pass = 1

\* C2: reclaimResource returns true exactly when it invoked at least one
\* callback and every callback it invoked returned success.
C2_TrueIffAllCallbacksSucceeded ==
    \A t \in Threads :
        pc[t] = "done" =>
            (ret[t] <=> (Len(called[t]) > 0 /\ \A c \in Invoked(t) : c.ok))

\* C2 witness: a call that invoked two callbacks, the second of which failed,
\* has returned false.
C2_Witness ==
    \E t \in Threads :
        /\ pc[t] = "done" /\ ~ret[t]
        /\ Len(called[t]) = 2 /\ called[t][1].ok /\ ~called[t][2].ok

\* C3: a thread running a victim callback, or waiting in one for the lock
\* that removeResource takes, does not hold mLock; from the first pass to the
\* end of the second the selecting thread holds mLock without a break, and
\* neither the registry nor the policy flags change under it.
C3_LockHeld ==
    \A t \in Threads :
        /\ pc[t] = "locked" => mLock = t
        /\ pc[t] \in {"callbacks", "cbwait"} => mLock # t

C3_LockStep ==
    \A t \in Threads :
        pc[t] = "locked" =>
            /\ registry' = registry
            /\ pc'[t] = "locked" => mLock' = t
            /\ pc'[t] # "locked" => pc'[t] \in {"callbacks", "done"} /\ mLock' = NoThread

C3_CallbacksRunUnlocked == []C3_LockHeld /\ [][C3_LockStep]_vars

\* C3 witness: a thread whose first victim's callback removed the victim now
\* waits, in its second victim's callback, for the lock that the other thread
\* holds in the middle of its selection.
C3_Witness ==
    \E t, u \in Threads :
        /\ t # u
        /\ pc[t] = "cbwait" /\ Len(called[t]) = 1
        /\ pc[u] = "locked" /\ mLock = u
        /\ removeResource(mMap, called[t][1].victim.clientId) = mMap

\* the indices of the process entries that hold a record of clientId
EntriesOf(map, clientId) ==
    {i \in 1..Len(map) : findClientFrom(clientId, map[i].value, 1) # 0}

\* C4: each clientId has records in at most one process entry.
C4_ClientIdInOneEntry ==
    \A clientId \in ClientIds : Cardinality(EntriesOf(mMap, clientId)) <= 1

\* registry after is registry before, or before with an empty entry for pid
\* that before had not
SameButEmptyEntry(after, before, pid) ==
    \/ after = before
    \/ indexOfKey(before, pid) = 0 /\ after = KeyedVectorAdd(before, pid, <<>>)

\* C5 as stated: after addResource(pid, id, h, R) and then removeResource(id)
\* the registry is as it was before the add, but for an empty entry for pid.
C5_AddThenRemoveRestores ==
    (lastCall.op = "remove" /\ lastCall.undoes)
        => SameButEmptyEntry(mMap, lastCall.addBefore, lastCall.addPid)

\* C5 amended: the same, for an id that had no record anywhere in the registry
\* before the add.
C5_AddThenRemoveRestoresNewId ==
    (lastCall.op = "remove" /\ lastCall.undoes
        /\ EntriesOf(lastCall.addBefore, lastCall.clientId) = {})
        => SameButEmptyEntry(mMap, lastCall.addBefore, lastCall.addPid)

\* C5 witness: a client with a new id was added under a pid that had no entry
\* while another pid held a client, and was removed next: the pid keeps an
\* empty entry.
C5_Witness ==
    /\ lastCall.op = "remove" /\ lastCall.undoes
    /\ EntriesOf(lastCall.addBefore, lastCall.clientId) = {}
    /\ lastCall.addBefore # <<>>
    /\ lastCall.before # lastCall.addBefore
    /\ indexOfKey(lastCall.addBefore, lastCall.addPid) = 0
    /\ mMap # lastCall.addBefore

\* C6: once removeResource(clientId) has returned no record of clientId is
\* left in the registry, and a call for an id without a record changes nothing.
C6_RemoveLeavesNoRecord ==
    lastCall.op = "remove" =>
        /\ EntriesOf(mMap, lastCall.clientId) = {}
        /\ EntriesOf(lastCall.before, lastCall.clientId) = {} => mMap = lastCall.before

\* the types whose holders a request puts in conflict with the caller under
\* the present policy flags
PolicyConflictTypes(q) ==
    {T \in ResourceTypes : \E i \in 1..Len(q) :
        \/ q[i] = kResourceSecureCodec /\ T = kResourceSecureCodec
              /\ ~mSupportsMultipleSecureCodecs
        \/ q[i] = kResourceSecureCodec /\ T = kResourceNonSecureCodec
              /\ ~mSupportsSecureWithNonSecureCodec
        \/ q[i] = kResourceNonSecureCodec /\ T = kResourceSecureCodec
              /\ ~mSupportsSecureWithNonSecureCodec}

\* the places <<i, j>> of the records of map that hold a resource of type T
HoldersOf(map, T) ==
    {h \in (1..Len(map)) \X (1..MaxHeld + 1) :
        /\ h[2] <= Len(map[h[1]].value)
        /\ \E k \in 1..Len(map[h[1]].value[h[2]].resources) :
              map[h[1]].value[h[2]].resources[k].mType = T}

\* a holder of a conflicting type sits in a pid of equal or higher priority
\* than pid c
Phase1Blocked(c, q) ==
    /\ prio[c] # NoPrio
    /\ \E T \in PolicyConflictTypes(q) : \E h \in HoldersOf(mMap, T) :
          /\ prio[mMap[h[1]].key] # NoPrio
          /\ prio[mMap[h[1]].key] <= prio[c]

\* C7: when the first pass meets a holder of the conflicting type whose pid
\* has a priority equal to or higher than the caller's, reclaimResource
\* returns false there and then, having invoked no callback, whatever
\* victims it had collected before.
C7_BlockerFailsWholeReclaim ==
    [][\A t \in Threads :
          (pc[t] = "idle" /\ pc'[t] # "idle"
              /\ Phase1Blocked(callingPid'[t], request'[t]))
          => (pc'[t] = "done" /\ ret'[t] = FALSE /\ called'[t] = <<>>)]_vars

\* C7 witness: a call has returned false without a callback although the
\* first pass had met, before the blocking holder, a holder of the same type
\* in a pid of lower priority than the caller.
C7_Witness ==
    \E t \in Threads :
        /\ pc[t] = "done" /\ ~ret[t] /\ called[t] = <<>>
        /\ Phase1Blocked(callingPid[t], request[t])
        /\ \E T \in PolicyConflictTypes(request[t]) :
           \E v, b \in HoldersOf(mMap, T) :
              /\ v[1] < b[1]
              /\ prio[mMap[v[1]].key] > prio[callingPid[t]]
              /\ prio[mMap[b[1]].key] <= prio[callingPid[t]]

\* the registry without the entries of the pids whose priority the oracle
\* cannot supply
RECURSIVE Visible(_)
Visible(map) ==
    IF map = <<>> THEN <<>>
    ELSE IF prio[Head(map).key] = NoPrio THEN Visible(Tail(map))
    ELSE <<Head(map)>> \o Visible(Tail(map))

\* the victims the two passes choose on registry map for caller c and
\* request q (ok: neither pass failed)
SelectVictims(map, c, q) ==
    LET r1 == firstPass(map, c, q, 1, <<>>)
    IN  IF ~r1.ok THEN [ok |-> FALSE, clients |-> <<>>]
        ELSE IF r1.clients # <<>> THEN r1
        ELSE LET r2 == secondPass(map, c, q, 1, <<>>)
             IN  IF r2.ok THEN r2 ELSE [ok |-> FALSE, clients |-> <<>>]

\* C8: for a caller whose priority is readable, victim selection ends as it
\* would on the registry without the entries of the pids with no readable
\* priority: it fails only if it would fail there, and it chooses the same
\* victims.
C8_UnreadablePidIsInvisible ==
    [][\A t \in Threads :
          LET c == callingPid'[t]
              v == SelectVictims(Visible(mMap), c, request'[t])
              wouldSelect == v.ok /\ v.clients # <<>>
          IN  (pc[t] \in {"idle", "locked"} /\ pc'[t] \in {"callbacks", "done"}
                  /\ prio[c] # NoPrio)
              => /\ wouldSelect <=> pc'[t] = "callbacks"
                 /\ wouldSelect => clients'[t] = v.clients]_vars

\* C9: a call whose calling pid has no readable priority selects no victim,
\* invokes no callback and returns false.
C9_UnreadableCallerFails ==
    \A t \in Threads :
        (pc[t] # "idle" /\ prio[callingPid[t]] = NoPrio) =>
            /\ clients[t] = <<>>
            /\ called[t] = <<>>
            /\ pc[t] \in {"locked", "done"}
            /\ pc[t] = "done" => ~ret[t]

\* C9 witness: such a call has returned false although it asked for graphic
\* memory that a client of a pid with a readable priority holds.
C9_Witness ==
    \E t \in Threads :
        /\ pc[t] = "done" /\ ~ret[t]
        /\ prio[callingPid[t]] = NoPrio
        /\ \E k \in 1..Len(request[t]) : request[t][k] = kResourceGraphicMemory
        /\ \E h \in HoldersOf(mMap, kResourceGraphicMemory) : prio[mMap[h[1]].key] # NoPrio

\* C10: when the first pass has collected a victim, every victim of the call
\* is a first-pass victim, and so is every client whose callback is invoked:
\* no client is chosen for a requested graphic-memory resource.
C10_SecondPassOnlyWhenFirstEmpty ==
    \A t \in Threads :
        (\E k \in 1..Len(clients[t]) : clients[t][k].pass = 1) =>
            /\ \A k \in 1..Len(clients[t]) : clients[t][k].pass = 1
            /\ \A c \in Invoked(t) : c.victim.pass = 1

\* C10 witness: a call that asked for graphic memory, held by a client of a
\* pid of lower priority than the caller, has returned true after invoking
\* first-pass victims only.
C10_Witness ==
    \E t \in Threads :
        /\ pc[t] = "done" /\ ret[t]
        /\ \E k \in 1..Len(request[t]) : request[t][k] = kResourceGraphicMemory
        /\ \E h \in HoldersOf(mMap, kResourceGraphicMemory) :
              /\ prio[mMap[h[1]].key] > prio[callingPid[t]]
              /\ \A c \in Invoked(t) : c.victim.clientId # mMap[h[1]].value[h[2]].clientId
        /\ \A c \in Invoked(t) : c.victim.pass = 1

\* the values of the resources of type T in the records infos
ValuesOf(infos, T) ==
    {v \in GraphicSizes :
        \E i \in 1..Len(infos) : \E k \in 1..Len(infos[i].resources) :
            infos[i].resources[k].mType = T /\ infos[i].resources[k].mValue = v}

\* the pids with a readable priority that hold a resource of type T
ReadableHolders(map, T) ==
    {map[i].key : i \in {i \in 1..Len(map) :
        prio[map[i].key] # NoPrio /\ ValuesOf(map[i].value, T) # {}}}

\* thread t has just left the locked block with victims and has called none
JustSelected(t) == pc[t] = "callbacks" /\ called[t] = <<>>

OutranksHolders(c, q) ==
    /\ prio[c] # NoPrio
    /\ \A T \in PolicyConflictTypes(q) : \A h \in HoldersOf(mMap, T) :
          /\ prio[mMap[h[1]].key] # NoPrio
          /\ prio[mMap[h[1]].key] > prio[c]

\* the victim vector cl has the client of every holder of a type that request
\* q puts in conflict
HasAllHolders(cl, q) ==
    \A T \in PolicyConflictTypes(q) : \A h \in HoldersOf(mMap, T) :
        \E k \in 1..Len(cl) :
            /\ cl[k].pid = mMap[h[1]].key
            /\ cl[k].clientId = mMap[h[1]].value[h[2]].clientId
            /\ cl[k].client = mMap[h[1]].value[h[2]].client

C12_Selected ==
    \A t \in Threads :
        /\ (JustSelected(t) /\ OutranksHolders(callingPid[t], request[t]))
              => HasAllHolders(clients[t], request[t])
        /\ (pc[t] = "done" /\ ret[t])
              => /\ Len(called[t]) = Len(clients[t])
                 /\ \A k \in 1..Len(clients[t]) : called[t][k].victim = clients[t][k]

C12_Step ==
    \A t \in Threads :
        (/\ pc[t] = "idle" /\ pc'[t] # "idle"
         /\ OutranksHolders(callingPid'[t], request'[t])
         /\ \E T \in PolicyConflictTypes(request'[t]) : HoldersOf(mMap, T) # {})
        => (pc'[t] = "locked" /\ HasAllHolders(clients'[t], request'[t]))

\* C12: when the caller outranks every holder of the types its request puts
\* in conflict, the first pass does not fail and the victim vector has the
\* client of every such holder; a call that returns true has invoked the
\* callback of every victim of its vector.
C12_AllHoldersCollected == []C12_Selected /\ [][C12_Step]_vars

\* C12 witness: a secure-codec request under two forbidding policy flags has
\* selected a secure and a non-secure holder of different pids.
C12_Witness ==
    \E t \in Threads :
        /\ JustSelected(t) /\ Len(clients[t]) = 2
        /\ request[t] = <<kResourceSecureCodec>>
        /\ ~mSupportsMultipleSecureCodecs /\ ~mSupportsSecureWithNonSecureCodec
        /\ clients[t][1].pid # clients[t][2].pid
        /\ HoldersOf(mMap, kResourceSecureCodec) # {}
        /\ HoldersOf(mMap, kResourceNonSecureCodec) # {}

\* C13: the callbacks a call has invoked are those of the first victims of
\* its vector, in the vector's order; every one but the last returned
\* success, and when the last one returned failure the call has returned
\* false with the later victims not called.
C13_CallbacksFormPrefix ==
    \A t \in Threads :
        LET n == Len(called[t])
        IN  /\ n <= Len(clients[t])
            /\ \A k \in 1..n : called[t][k].victim = clients[t][k]
            /\ \A k \in 1..(n - 1) : called[t][k].ok
            /\ (n >= 1 /\ ~called[t][n].ok) => (pc[t] = "done" /\ ~ret[t])

\* C13 witness: a call with two victims has returned false after its first
\* victim's callback failed; the second victim was not called.
C13_Witness ==
    \E t \in Threads :
        /\ pc[t] = "done" /\ ~ret[t]
        /\ Len(clients[t]) = 2 /\ clients[t][1] # clients[t][2]
        /\ Len(called[t]) = 1 /\ ~called[t][1].ok

\* the two policy flags as config returns them
Flags ==
    [multipleSecure |-> mSupportsMultipleSecureCodecs,
     secureWithNonSecure |-> mSupportsSecureWithNonSecureCodec]

\* C14: each policy flag is true when no pair was ever supplied for its key
\* and otherwise tells whether the last pair supplied for it had a value
\* other than 0, whatever pairs for other keys came between; config calls
\* for two different keys give the same flags in either order, a call with an
\* unknown key changes nothing, and repeating the last call changes nothing.
C14_ConfigLastWriteWins ==
    LET w == Written(lastCall)
    IN  /\ mSupportsMultipleSecureCodecs = (w[kPolicySupportsMultipleSecureCodecs] # 0)
        /\ mSupportsSecureWithNonSecureCodec
              = (w[kPolicySupportsSecureWithNonSecureCodec] # 0)
        /\ lastCall.op = "config" => config(lastCall.policies) = Flags
        /\ \A a, b \in ConfigPolicies :
              a.mType # b.mType =>
                  configFrom(<<b>>, 1, config(<<a>>)) = configFrom(<<a>>, 1, config(<<b>>))
        /\ \A v \in PolicyValues : config(<<MediaResource(kPolicyUnknown, v)>>) = Flags

\* C14 witness: the last call gave two pairs for one key, the first with a
\* non-zero value and the last with 0, and the flag is false; the other flag
\* is still false from an earlier call.
C14_Witness ==
    /\ lastCall.op = "config" /\ Len(lastCall.policies) = 2
    /\ lastCall.policies[1] = MediaResource(kPolicySupportsMultipleSecureCodecs, 2)
    /\ lastCall.policies[2] = MediaResource(kPolicySupportsMultipleSecureCodecs, 0)
    /\ ~mSupportsMultipleSecureCodecs
    /\ ~mSupportsSecureWithNonSecureCodec

\* the last registry call was an addResource that created the entry of its
\* pid, so that pid is the last one registered
LastRegistered(pid) ==
    /\ lastCall.op = "add" /\ lastCall.pid = pid
    /\ indexOfKey(lastCall.before, pid) = 0

\* pid p holds type T and no pid with a readable priority that holds T has a
\* greater priority value
GreatestHolder(p, T) ==
    /\ p \in ReadableHolders(mMap, T)
    /\ \A o \in ReadableHolders(mMap, T) : prio[o] <= prio[p]

\* C15: when the pid registered last ties on the greatest priority value with
\* a pid registered before it, both holding graphic memory, the second pass
\* does not take its victim from the pid registered last (looked at where
\* no clientId is in two entries and no graphic-memory resource has size 0).
C15_TieGoesToFirstRegistered ==
    \A t \in Threads : \A p \in Pids :
        (/\ JustSelected(t)
         /\ LastRegistered(p)
         /\ GreatestHolder(p, kResourceGraphicMemory)
         /\ \E o \in Keys(lastCall.before) :
               o # p /\ GreatestHolder(o, kResourceGraphicMemory)
         /\ C4_ClientIdInOneEntry
         /\ \A i \in 1..Len(mMap) : 0 \notin ValuesOf(mMap[i].value, kResourceGraphicMemory))
        => \A k \in 1..Len(clients[t]) :
               clients[t][k].pass = 2 => clients[t][k].pid # p

\* C16: a graphic-memory request that no policy conflict stands in the way
\* of, from a caller with a readable priority lower in value than that of
\* the lowest-priority pid holding graphic memory, does not return without
\* having invoked a callback, whatever the sizes of the resources.
C16_BiggestClientFound ==
    \A t \in Threads :
        (/\ pc[t] = "done"
         /\ request[t] = <<kResourceGraphicMemory>>
         /\ prio[callingPid[t]] # NoPrio
         /\ \E p \in Pids : /\ GreatestHolder(p, kResourceGraphicMemory)
                            /\ prio[p] > prio[callingPid[t]])
        => called[t] # <<>>

\* the records of clientId in the registry, as (entry, record) index pairs
RecordsOf(map, clientId) ==
    {h \in (1..Len(map)) \X (1..Cardinality(ClientIds)) :
        h[2] <= Len(map[h[1]].value) /\ map[h[1]].value[h[2]].clientId = clientId}

\* C17: an addResource for a clientId that has a record leaves the registry
\* with the same records in the same places, that of the clientId keeping its
\* handle and having the given resources after the ones it had, and every
\* other record as it was.
C17_ExistingClientKeepsHandle ==
    (lastCall.op = "add" /\ RecordsOf(lastCall.before, lastCall.clientId) # {})
    => /\ RecordsOf(mMap, lastCall.clientId) = RecordsOf(lastCall.before, lastCall.clientId)
       /\ Len(mMap) = Len(lastCall.before)
       /\ \A i \in 1..Len(mMap) :
             /\ mMap[i].key = lastCall.before[i].key
             /\ Len(mMap[i].value) = Len(lastCall.before[i].value)
             /\ \A j \in 1..Len(mMap[i].value) :
                   LET new == mMap[i].value[j]
                       old == lastCall.before[i].value[j]
                   IN  /\ new.clientId = old.clientId
                       /\ new.client = old.client
                       /\ new.resources =
                             IF new.clientId = lastCall.clientId
                             THEN old.resources \o lastCall.resources
                             ELSE old.resources

\* thread t is inside a call of the service
InCall(t) == pc[t] \in {"locked", "callbacks", "cbwait", "opwait"}

C19_ReclaimLeavesRegistry ==
    [][(local' # local /\ \A t \in Threads : pc[t] # "cbwait")
          => registry' = registry]_vars

\* C19 witness: a call has returned true and the record of every victim it
\* called is still in the registry under the victim's pid.
C19_Witness ==
    \E t \in Threads :
        /\ pc[t] = "done" /\ ret[t] /\ Len(called[t]) = 2
        /\ \A c \in Invoked(t) :
              /\ indexOfKey(mMap, c.victim.pid) # 0
              /\ findClientFrom(c.victim.clientId,
                                mMap[indexOfKey(mMap, c.victim.pid)].value, 1) # 0

\* the registry without its entries that have no record
RECURSIVE NonEmptyEntries(_)
NonEmptyEntries(map) ==
    IF map = <<>> THEN <<>>
    ELSE IF Head(map).value = <<>> THEN NonEmptyEntries(Tail(map))
    ELSE <<Head(map)>> \o NonEmptyEntries(Tail(map))

C20_OneRecordPerClient ==
    \A i \in 1..Len(mMap) : \A j, k \in 1..Len(mMap[i].value) :
        mMap[i].value[j].clientId = mMap[i].value[k].clientId => j = k

C20_Step ==
    /\ Keys(mMap) \subseteq Keys(mMap')
    /\ \A t \in Threads :
          LET v == SelectVictims(NonEmptyEntries(mMap), callingPid'[t], request'[t])
              wouldSelect == v.ok /\ v.clients # <<>>
          IN  (pc[t] \in {"idle", "locked"} /\ pc'[t] \in {"callbacks", "done"})
              => /\ wouldSelect <=> pc'[t] = "callbacks"
                 /\ wouldSelect => clients'[t] = v.clients

\* C20: no process entry has two records of one clientId; no step takes a
\* pid key out of the registry, so a pid whose last client is removed keeps
\* an empty entry; and victim selection ends as it would on the registry
\* without its empty entries, failing only if it would fail there and
\* choosing the same victims.
C20_EntriesKeepKeysAndClients == []C20_OneRecordPerClient /\ [][C20_Step]_vars

\* C20 witness: a secure-codec request under a forbidding policy flag has
\* selected its victims while a pid that the caller does not outrank keeps an
\* empty entry.
C20_Witness ==
    \E t \in Threads :
        /\ JustSelected(t)
        /\ clients[t][1].pass = 1
        /\ \E i \in 1..Len(mMap) :
              /\ mMap[i].value = <<>>
              /\ prio[mMap[i].key] <= prio[callingPid[t]]

=============================================================================
